---- MODULE Spec2Model ----
(***************************************************************************)
(* Model of dx_doc_tool.py: the solution-archive extractor                 *)
(* (unzip_solution), the SharePoint field fetcher (get_sp_list_columns),   *)
(* the field exporter (export_sp_list_to_csv) and the prompt generator     *)
(* (generate_gpt_prompt), acting on one output root.                       *)
(*                                                                         *)
(* File names are sequences of tokens (<<"a", ".msapp">> is "a.msapp"), so *)
(* that endswith, splitext and string concatenation are computed.          *)
(* Texts are sequences of tokens for the same reason.                      *)
(***************************************************************************)
EXTENDS Integers, Sequences, FiniteSets, TLC

VARIABLES
    disk,        \* the zip files the user can select: a set of archives
    maxLen,      \* length of the longest fields sequence a caller passes
    solution,    \* the tree under output_root/solution
    pc,          \* position of unzip_solution: "idle" or "loop"
    zip,         \* the archive at zip_path of the current / last unzip call
    listing,     \* the os.listdir(canvas_dir) snapshot of that call
    todo,        \* the entries of listing the for loop has not visited yet
    ret,         \* outcome of the last call: operation, returned/raised, value
    prevCall,    \* outcome of the unzip_solution call before the last one
    tempJson,    \* the file %TEMP%/sp_list_fields.json
    proc,        \* what the PowerShell process of the last fetch did
    sharepoint,  \* the tree under output_root/sharepoint
    exportArg,   \* the fields argument of the last export call
    prompt       \* the file output_root/gpt_prompt.txt

unzipVars  == <<solution, pc, zip, listing, todo, prevCall>>
fetchVars  == <<tempJson, proc>>
exportVars == <<sharepoint, exportArg>>
vars == <<disk, maxLen, solution, pc, zip, listing, todo, ret, prevCall,
          tempJson, proc, sharepoint, exportArg, prompt>>

EmptyFn == [x \in {} |-> x]

--------------------------------------------------------------------------
(* Names and paths                                                        *)

MSAPP == ".msapp"
ZIPEXT == ".zip"
EXTRACTED == "_extracted"
Exts == {".msapp", ".zip", ".txt", ".xml", ".json"}

\* str.endswith(suffix) for a suffix that is one token
EndsWith(name, suffix) == Len(name) > 0 /\ name[Len(name)] = suffix

\* file.endswith(".msapp"), line 39
IsMsapp(file) == EndsWith(file, MSAPP)

\* os.path.splitext(file)[0], line 41: strips the last extension, but a
\* leading dot of the name is not an extension
SplitextRoot(file) ==
    IF Len(file) > 1 /\ file[Len(file)] \in Exts
    THEN SubSeq(file, 1, Len(file) - 1)
    ELSE file

\* f"{app_name}_extracted", line 42
ExtractDirName(file) == Append(SplitextRoot(file), EXTRACTED)

\* msapp_path + ".zip", line 47
TempZipName(file) == Append(file, ZIPEXT)

--------------------------------------------------------------------------
(* File contents and directory nodes                                      *)

\* A file's bytes: whether zipfile can open them, and the members if so.
Blob(tag, valid, members) == [tag |-> tag, valid |-> valid, members |-> members]

ZipX == Blob("zipX", TRUE, ("Controls.json" :> "x"))
ZipY == Blob("zipY", TRUE, ("Properties.json" :> "y"))
Junk == Blob("junk", FALSE, EmptyFn)
UserZip == Blob("userzip", TRUE, ("notes.txt" :> "n"))
\* what a copy interrupted by an I/O error leaves at the destination
Truncated == Blob("truncated", FALSE, EmptyFn)

FileNode(blob) == [kind |-> "file", data |-> blob, files |-> EmptyFn]
DirNode(files) == [kind |-> "dir", data |-> Blob("", FALSE, EmptyFn), files |-> files]

\* dict-like update of a directory: entries of new replace those of old
Overlay(new, old) == new @@ old

Remove(dir, name) == [n \in DOMAIN dir \ {name} |-> dir[n]]

--------------------------------------------------------------------------
(* The zip files a user can select                                        *)

Archive(exists, valid, top, hasCanvas, canvas) ==
    [exists |-> exists, valid |-> valid, top |-> top, hasCanvas |-> hasCanvas,
     canvas |-> canvas]

\* a file at zip_path that zipfile.ZipFile cannot open
BadArchive == Archive(TRUE, FALSE, EmptyFn, FALSE, EmptyFn)
\* a zip_path at which there is no file
NoArchive == Archive(FALSE, FALSE, EmptyFn, FALSE, EmptyFn)

TopFiles == ("customizations.xml" :> "c")

AMsapp == <<"a", MSAPP>>
BMsapp == <<"b", MSAPP>>
AMsappZip == <<"a", MSAPP, ZIPEXT>>

\* the contents an entry of CanvasApps may have in an archive
EntryBlobs(name) ==
    IF name = AMsapp THEN {ZipX, Junk}
    ELSE IF name = BMsapp THEN {ZipY}
    ELSE {UserZip}

CanvasDirs ==
    UNION { { c \in [S -> {ZipX, ZipY, Junk, UserZip}] :
                \A n \in S : c[n] \in EntryBlobs(n) } :
            S \in SUBSET {AMsapp, BMsapp, AMsappZip} }

Archives ==
    {BadArchive, Archive(TRUE, TRUE, TopFiles, FALSE, EmptyFn)}
    \cup { Archive(TRUE, TRUE, TopFiles, TRUE, [n \in DOMAIN c |-> FileNode(c[n])]) :
           c \in CanvasDirs }


--------------------------------------------------------------------------
(* unzip_solution                                                         *)

NoTree == [exists |-> FALSE, top |-> EmptyFn, canvasExists |-> FALSE, canvas |-> EmptyFn]

Ret(op, status, value) == [op |-> op, status |-> status, value |-> value, fields |-> <<>>]
NoRet == Ret("", "", "")

NoCall == [zip |-> NoArchive, status |-> "", tree |-> NoTree, visited |-> {}]

\* the .msapp entries the loop of the last call has handled
Visited == {f \in listing \ todo : IsMsapp(f)}

\* what an unzip_solution call on archive z records of the call right
\* before it, when that was an unzip_solution call on the same archive
CallBefore(z) ==
    IF ret.op = "unzip_solution" /\ zip = z
    THEN [zip |-> zip, status |-> ret.status, tree |-> solution, visited |-> Visited]
    ELSE NoCall

\* os.makedirs(solution_dir) without exist_ok
MakedirsRaises_NoExistOk(exists) == exists

\* os.makedirs(solution_dir, exist_ok=True), line 29: does it raise, given
\* whether the directory exists?
MakedirsRaises(exists) == FALSE

\* the existence check placed after os.makedirs
UnzipNotFound_AfterMakedirs ==
    /\ pc = "idle"
    /\ prevCall' = CallBefore(NoArchive)
    /\ zip' = NoArchive
    /\ listing' = {}
    /\ todo' = {}
    /\ solution' = [solution EXCEPT !.exists = TRUE]
    /\ ret' = Ret("unzip_solution", "raised", "FileNotFoundError")
    /\ UNCHANGED <<disk, maxLen, pc, fetchVars, exportVars, prompt>>

\* lines 23-24: zip_path does not exist
UnzipNotFound ==
    /\ pc = "idle"
    /\ prevCall' = CallBefore(NoArchive)
    /\ zip' = NoArchive
    /\ listing' = {}
    /\ todo' = {}
    /\ ret' = Ret("unzip_solution", "raised", "FileNotFoundError")
    /\ UNCHANGED <<disk, maxLen, solution, pc, fetchVars, exportVars, prompt>>

\* z.extractall(solution_dir), line 33: every entry written, colliding paths
\* overwritten, nothing else deleted
ExtractTop(tree, z) ==
    [exists |-> TRUE,
     top |-> Overlay(z.top, tree.top),
     canvasExists |-> tree.canvasExists \/ z.hasCanvas,
     canvas |-> Overlay(z.canvas, tree.canvas)]

\* lines 23-38: the archive is extracted and CanvasApps listed; or the
\* archive is not a zip file and BadZipFile leaves line 32
UnzipStart ==
    /\ pc = "idle"
    /\ \E z \in disk :
        /\ prevCall' = CallBefore(z)
        /\ zip' = z
        /\ IF MakedirsRaises(solution.exists)
           THEN /\ ret' = Ret("unzip_solution", "raised", "FileExistsError")
                /\ UNCHANGED <<solution, pc>>
                /\ listing' = {}
                /\ todo' = {}
           ELSE IF ~z.valid
           THEN /\ solution' = [solution EXCEPT !.exists = TRUE]
                /\ ret' = Ret("unzip_solution", "raised", "BadZipFile")
                /\ listing' = {}
                /\ todo' = {}
                /\ UNCHANGED pc
           ELSE /\ solution' = ExtractTop(solution, z)
                /\ listing' = IF solution'.canvasExists THEN DOMAIN solution'.canvas ELSE {}
                /\ todo' = listing'
                /\ pc' = "loop"
                /\ ret' = Ret("unzip_solution", "running", "")
    /\ UNCHANGED <<disk, maxLen, fetchVars, exportVars, prompt>>

\* line 39 false: the entry is not a .msapp
LoopSkip ==
    /\ pc = "loop"
    /\ \E file \in todo :
        /\ ~IsMsapp(file)
        /\ todo' = todo \ {file}
    /\ UNCHANGED <<disk, maxLen, solution, pc, zip, listing, ret, prevCall,
                   fetchVars, exportVars, prompt>>

\* os.makedirs(app_extract_dir, exist_ok=True), line 44
Makedirs(canvas, name) ==
    IF name \in DOMAIN canvas THEN canvas ELSE (name :> DirNode(EmptyFn)) @@ canvas

\* shutil.copy(msapp_path, temp_zip), line 48; an I/O error may strike
\* before the destination is created or while it is being written
CopyOutcomes == {"ok", "oserror_early", "oserror_partial"}
Copy(canvas, src, dst, outcome) ==
    IF outcome = "ok" THEN (dst :> FileNode(canvas[src].data)) @@ canvas
    ELSE IF outcome = "oserror_partial" THEN (dst :> FileNode(Truncated)) @@ canvas
    ELSE canvas

\* z.extractall(app_extract_dir), line 52, writing the members in part
ExtractInto(canvas, dirName, members, part) ==
    [canvas EXCEPT ![dirName] =
        DirNode(Overlay([m \in part |-> members[m]], canvas[dirName].files))]

\* an except clause that matches nothing
ExceptBadZipFile_Never(exc) == FALSE

\* except zipfile.BadZipFile, line 53
ExceptBadZipFile(exc) == exc = "BadZipFile"

\* finally, lines 55-57
RemoveTemp(canvas, temp) ==
    IF temp \in DOMAIN canvas THEN Remove(canvas, temp) ELSE canvas

\* lines 50-57 on the canvas directory after the copy: the directory
\* afterwards, and the exception that leaves the try statement ("" if none)
TryExtract(canvas, dirName, temp, extractOk, part) ==
    LET blob == canvas[temp].data
        exc == IF ~blob.valid THEN "BadZipFile"
               ELSE IF ~extractOk THEN "OSError" ELSE ""
        done == IF ~blob.valid THEN {}
                ELSE IF extractOk THEN DOMAIN blob.members ELSE part
        after == ExtractInto(canvas, dirName, blob.members, done)
    IN [canvas |-> RemoveTemp(after, temp),
        exc |-> IF ExceptBadZipFile(exc) THEN "" ELSE exc]

\* lines 40-57 for one .msapp entry
ProcessMsapp(canvas, file, copyOutcome, extractOk, part) ==
    LET dirName == ExtractDirName(file)
        temp == TempZipName(file)
        made == Makedirs(canvas, dirName)
        copied == Copy(made, file, temp, copyOutcome)
    IN IF copyOutcome # "ok"
       THEN [canvas |-> copied, exc |-> "OSError"]
       ELSE TryExtract(copied, dirName, temp, extractOk, part)

LoopMsapp ==
    /\ pc = "loop"
    /\ \E file \in {f \in todo : IsMsapp(f)}, copyOutcome \in CopyOutcomes,
          extractOk \in BOOLEAN :
       \E part \in SUBSET DOMAIN solution.canvas[file].data.members :
        /\ (extractOk => part = {})
        /\ (~extractOk => /\ copyOutcome = "ok"
                          /\ solution.canvas[file].data.valid
                          /\ part # DOMAIN solution.canvas[file].data.members)
        /\ LET r == ProcessMsapp(solution.canvas, file, copyOutcome, extractOk, part)
           IN /\ solution' = [solution EXCEPT !.canvas = r.canvas]
              /\ todo' = todo \ {file}
              /\ IF r.exc = ""
                 THEN UNCHANGED <<pc, ret>>
                 ELSE /\ pc' = "idle"
                      /\ ret' = Ret("unzip_solution", "raised", r.exc)
    /\ UNCHANGED <<disk, maxLen, zip, listing, prevCall, fetchVars, exportVars, prompt>>

\* line 59
UnzipReturn ==
    /\ pc = "loop"
    /\ todo = {}
    /\ pc' = "idle"
    /\ ret' = Ret("unzip_solution", "returned", "solution")
    /\ UNCHANGED <<disk, maxLen, solution, zip, listing, todo, prevCall,
                   fetchVars, exportVars, prompt>>

UnzipNext == UnzipNotFound \/ UnzipStart \/ LoopSkip \/ LoopMsapp \/ UnzipReturn


--------------------------------------------------------------------------
(* Python values: field dictionaries, JSON                                *)

\* A value is a string (its text a sequence of tokens), None, a bool or a
\* list of items; an item is a string or an int.
Str(tokens) == [t |-> "str", s |-> tokens, l |-> <<>>]
None == [t |-> "none", s |-> <<>>, l |-> <<>>]
Bool(b) == [t |-> "bool", s |-> IF b THEN <<"True">> ELSE <<"False">>, l |-> <<>>]
List(items) == [t |-> "list", s |-> <<>>, l |-> items]
StrItem(tok) == [t |-> "str", s |-> <<tok>>]
IntItem(tok) == [t |-> "int", s |-> <<tok>>]

\* col.get(key)
Get(col, key) == IF key \in DOMAIN col THEN col[key] ELSE None

\* bool(v)
Truthy(v) ==
    ~ \/ v.t = "none"
      \/ (v.t = "str" /\ v.s = <<>>)
      \/ (v.t = "bool" /\ v.s = <<"False">>)
      \/ (v.t = "list" /\ v.l = <<>>)

\* a or b
PyOr(a, b) == IF Truthy(a) THEN a ELSE b

\* str(v) as an f-string formats it
PyStr(v) == IF v.t = "none" THEN <<"None">> ELSE v.s

\* sep.join(items) raises TypeError when an item is not a str
JoinRaises(items) == \E i \in 1..Len(items) : items[i].t # "str"

RECURSIVE Join(_, _)
Join(sep, texts) ==
    IF Len(texts) = 0 THEN <<>>
    ELSE IF Len(texts) = 1 THEN texts[1]
    ELSE texts[1] \o <<sep>> \o Join(sep, Tail(texts))

\* json.dump / json.load of a value: None is null, a bool is true or false
JsonDump(v) ==
    IF v.t = "none" THEN [t |-> "null", s |-> <<>>, l |-> <<>>]
    ELSE IF v.t = "bool"
    THEN [t |-> IF v.s = <<"True">> THEN "true" ELSE "false", s |-> <<>>, l |-> <<>>]
    ELSE IF v.t = "str" THEN [t |-> "string", s |-> v.s, l |-> <<>>]
    ELSE [t |-> "array", s |-> <<>>, l |-> v.l]

JsonLoad(j) ==
    IF j.t = "null" THEN None
    ELSE IF j.t = "true" THEN Bool(TRUE)
    ELSE IF j.t = "false" THEN Bool(FALSE)
    ELSE IF j.t = "string" THEN Str(j.s)
    ELSE List(j.l)

DumpObject(col) == [k \in DOMAIN col |-> JsonDump(col[k])]
LoadObject(obj) == [k \in DOMAIN obj |-> JsonLoad(obj[k])]

\* a JSON document: one object, an array of objects, or no JSON at all
NoObject == EmptyFn
DictDoc(obj) == [kind |-> "dict", obj |-> obj, arr |-> <<>>]
ListDoc(arr) == [kind |-> "list", obj |-> NoObject, arr |-> arr]
InvalidDoc == [kind |-> "invalid", obj |-> NoObject, arr |-> <<>>]

\* json.dump(fields, jf, ...), line 136
DumpFields(fields) == ListDoc([i \in 1..Len(fields) |-> DumpObject(fields[i])])

\* the field dictionaries a caller may hold
FieldFull ==
    [Title |-> Str(<<"Status">>), InternalName |-> Str(<<"status">>),
     TypeAsString |-> Str(<<"Choice">>), Required |-> Bool(TRUE),
     Description |-> Str(<<"state">>), DefaultValue |-> Str(<<"A">>),
     Choices |-> List(<<StrItem("A"), StrItem("B")>>),
     LookupList |-> Str(<<"X">>), LookupField |-> Str(<<"Y">>)]
FieldEmpty == EmptyFn
FieldDisplay ==
    [DisplayName |-> Str(<<"Owner">>), TypeDisplayName |-> Str(<<"Person">>),
     Required |-> Bool(FALSE), LookupList |-> Str(<<"X">>)]
FieldBlank ==
    [Title |-> Str(<<>>), DisplayName |-> Str(<<"Owner">>), Choices |-> List(<<>>),
     LookupField |-> Str(<<"Y">>), Description |-> None]
FieldIntChoices ==
    [Title |-> Str(<<"Rank">>), Choices |-> List(<<IntItem("1"), IntItem("2")>>)]
FieldChoices ==
    [Title |-> Str(<<"Status">>), Choices |-> List(<<StrItem("A"), StrItem("B")>>)]

Fields == {FieldFull, FieldEmpty, FieldDisplay, FieldBlank, FieldIntChoices, FieldChoices}

\* longest fields sequence passed to export_sp_list_to_csv
MaxFields == 2

FieldSeqs(longest) == UNION { [1..n -> Fields] : n \in 0..longest }

--------------------------------------------------------------------------
(* get_sp_list_columns                                                    *)

Sites == {"siteA", "siteB"}
Lists == {"Sales", "Staff"}

\* a field of a list of a site, as Get-PnPField reports it
RemoteField(site, list, n) ==
    [Title |-> Str(<<site, list, n>>), InternalName |-> Str(<<n>>)]

\* what ConvertTo-Json writes for the list: an array, or a single object
\* when the list has one field
RemoteDocs(site, list) ==
    { ListDoc(<<DumpObject(RemoteField(site, list, "f1")),
                DumpObject(RemoteField(site, list, "f2"))>>),
      DictDoc(DumpObject(RemoteField(site, list, "f1"))) }

NoFile == [exists |-> FALSE, doc |-> InvalidDoc]
JsonFile(doc) == [exists |-> TRUE, doc |-> doc]

\* what subprocess.run of the PowerShell script can do
ProcOutcomes == {"no_powershell", "exit_nonzero", "exit0_written", "exit0_empty",
                 "exit0_no_file"}

NoProc == [site |-> "", list |-> "", outcome |-> ""]

\* Out-File, line 84: the file at temp_json after the process
AfterProcess(temp, outcome, doc) ==
    IF outcome = "exit0_written" THEN JsonFile(doc)
    ELSE IF outcome = "exit0_empty" THEN JsonFile(InvalidDoc)
    ELSE temp

\* the file at temp_json when the process starts: lines 76-95 leave it alone
TempJsonBefore(temp) == temp

\* lines 113-117
Normalize(doc) ==
    IF doc.kind = "dict" THEN <<LoadObject(doc.obj)>>
    ELSE [i \in 1..Len(doc.arr) |-> LoadObject(doc.arr[i])]

\* lines 96-117: the outcome of the call, given the process outcome and
\* the file at temp_json after it
FetchRet(outcome, temp) ==
    IF outcome = "no_powershell"
    THEN [op |-> "get_sp_list_columns", status |-> "raised",
          value |-> "RuntimeError: PowerShell not found", fields |-> <<>>]
    ELSE IF outcome = "exit_nonzero"
    THEN [op |-> "get_sp_list_columns", status |-> "raised",
          value |-> "RuntimeError: PowerShell failed", fields |-> <<>>]
    ELSE IF ~temp.exists
    THEN [op |-> "get_sp_list_columns", status |-> "raised",
          value |-> "RuntimeError: no JSON output", fields |-> <<>>]
    ELSE IF temp.doc.kind = "invalid"
    THEN [op |-> "get_sp_list_columns", status |-> "raised",
          value |-> "JSONDecodeError", fields |-> <<>>]
    ELSE [op |-> "get_sp_list_columns", status |-> "returned",
          value |-> "fields", fields |-> Normalize(temp.doc)]

GetSpListColumns ==
    /\ pc = "idle"
    /\ \E site \in Sites, list \in Lists, outcome \in ProcOutcomes :
       \E doc \in RemoteDocs(site, list) :
        /\ tempJson' = AfterProcess(TempJsonBefore(tempJson), outcome, doc)
        /\ proc' = [site |-> site, list |-> list, outcome |-> outcome]
        /\ ret' = FetchRet(outcome, tempJson')
    /\ UNCHANGED <<disk, maxLen, maxLen, unzipVars, exportVars, prompt>>


--------------------------------------------------------------------------
(* export_sp_list_to_csv                                                  *)

ListNames == {<<"HR", "/", "Staff">>, <<"HR", "\\", "Staff">>, <<"HR", "_", "Staff">>}

\* list_name.replace("/", "_").replace("\\", "_"), line 130
Sanitize(name) ==
    [i \in 1..Len(name) |-> IF name[i] \in {"/", "\\"} THEN "_" ELSE name[i]]

\* lines 131-132
CsvName(list_name) == Append(Sanitize(list_name), "_fields.csv")
JsonName(list_name) == Append(Sanitize(list_name), "_fields.json")

NoDir == [exists |-> FALSE, files |-> EmptyFn]
NoArg == [fields |-> <<>>, list_name |-> <<>>]

\* the header row, line 140 (the Japanese column titles, in English)
Header == << <<"display name">>, <<"internal name">>, <<"type">>, <<"required">>,
             <<"description">>, <<"DefaultValue">>, <<"other">> >>

\* "Choices" in col and col["Choices"], line 154
HasChoices(col) == "Choices" \in DOMAIN col /\ Truthy(col["Choices"])

\* lookup_list and lookup_field
HasLookup_Both(lookup_list, lookup_field) == Truthy(lookup_list) /\ Truthy(lookup_field)

\* lookup_list or lookup_field, line 160
HasLookup(lookup_list, lookup_field) == Truthy(lookup_list) \/ Truthy(lookup_field)

\* ', '.join(col['Choices']) raises TypeError, line 155
RowRaises(col) == HasChoices(col) /\ JoinRaises(col["Choices"].l)

\* lines 151-163
ExtraStr(col) ==
    LET choices == IF HasChoices(col)
                   THEN << <<"Choices: ">> \o
                           Join(", ", [i \in 1..Len(col["Choices"].l) |->
                                          col["Choices"].l[i].s]) >>
                   ELSE <<>>
        lookup_list == Get(col, "LookupList")
        lookup_field == Get(col, "LookupField")
        lookup == IF HasLookup(lookup_list, lookup_field)
                  THEN << <<"Lookup: List=">> \o PyStr(lookup_list) \o
                          <<", Field=">> \o PyStr(lookup_field) >>
                  ELSE <<>>
    IN Join(" | ", choices \o lookup)

\* what csv.writer writes for a cell: nothing for None, str(v) otherwise
CsvCell(v) == IF v.t = "none" THEN <<>> ELSE v.s

\* lines 143-173: the row of one field
CsvRow(col) ==
    << CsvCell(PyOr(PyOr(Get(col, "Title"), Get(col, "DisplayName")), Str(<<>>))),
       CsvCell(PyOr(Get(col, "InternalName"), Str(<<>>))),
       CsvCell(PyOr(PyOr(Get(col, "TypeAsString"), Get(col, "TypeDisplayName")),
                    Str(<<>>))),
       CsvCell(Get(col, "Required")),
       CsvCell(PyOr(Get(col, "Description"), Str(<<>>))),
       CsvCell(PyOr(Get(col, "DefaultValue"), Str(<<>>))),
       ExtraStr(col) >>

\* index of the first field whose row raises, 0 if none does
FirstRaising(fields) ==
    IF \E i \in 1..Len(fields) : RowRaises(fields[i])
    THEN CHOOSE i \in 1..Len(fields) :
            /\ RowRaises(fields[i])
            /\ \A j \in 1..(i - 1) : ~RowRaises(fields[j])
    ELSE 0

\* lines 138-173: the rows in the file when the with statement is left
CsvRows(fields) ==
    LET bad == FirstRaising(fields)
        n == IF bad = 0 THEN Len(fields) ELSE bad - 1
    IN <<Header>> \o [i \in 1..n |-> CsvRow(fields[i])]

SpFile(doc, rows) == [doc |-> doc, rows |-> rows]

\* lines 127-175
ExportSpListToCsv ==
    /\ pc = "idle"
    /\ \E fields \in FieldSeqs(maxLen), list_name \in ListNames :
        /\ exportArg' = [fields |-> fields, list_name |-> list_name]
        /\ sharepoint' =
            [exists |-> TRUE,
             files |-> (JsonName(list_name) :> SpFile(DumpFields(fields), <<>>))
                       @@ (CsvName(list_name) :> SpFile(InvalidDoc, CsvRows(fields)))
                       @@ sharepoint.files]
        /\ ret' = IF FirstRaising(fields) = 0
                  THEN Ret("export_sp_list_to_csv", "returned", "csv_path, json_path")
                  ELSE Ret("export_sp_list_to_csv", "raised", "TypeError")
    /\ UNCHANGED <<disk, maxLen, unzipVars, fetchVars, prompt>>

--------------------------------------------------------------------------
(* generate_gpt_prompt                                                    *)

NoPrompt == [exists |-> FALSE, lines |-> <<>>]

\* the lines of the prompt, each abbreviated to a label

Intro == <<"role", "task", "", "locations">>
SolutionBullets == <<"- solution folder: output_root/solution", "  - CanvasApps *_extracted",
                     "  - Workflows", "  - customizations.xml">>
SolutionMissing == <<"- (solution folder not generated yet)">>
SharePointBullets == <<"- sharepoint folder: output_root/sharepoint", "  - *_fields.csv",
                       "  - *_fields.json">>
SharePointMissing == <<"- (sharepoint folder not generated yet)">>
Requests == <<"", "documents", "1 canvas apps", "2 flows", "3 dataverse",
              "4 sharepoint lists", "5 overview", "markdown">>

\* has_sp taken from the solution folder
HasSp_FromSolution(sol, sp) == sol.exists

\* lines 193-194
HasSolution(sol, sp) == sol.exists
HasSp(sol, sp) == sp.exists

\* lines 196-243
PromptLines(sol, sp) ==
    Intro
    \o (IF HasSolution(sol, sp) THEN SolutionBullets ELSE SolutionMissing)
    \o (IF HasSp(sol, sp) THEN SharePointBullets ELSE SharePointMissing)
    \o Requests

\* lines 182-250
GenerateGptPrompt ==
    /\ pc = "idle"
    /\ prompt' = [exists |-> TRUE, lines |-> PromptLines(solution, sharepoint)]
    /\ ret' = Ret("generate_gpt_prompt", "returned", "gpt_prompt.txt")
    /\ UNCHANGED <<disk, maxLen, unzipVars, fetchVars, exportVars>>

--------------------------------------------------------------------------
(* Specifications                                                         *)

InitRoot ==
    /\ solution = NoTree
    /\ pc = "idle"
    /\ zip = NoArchive
    /\ listing = {}
    /\ todo = {}
    /\ ret = NoRet
    /\ prevCall = NoCall
    /\ tempJson = NoFile
    /\ proc = NoProc
    /\ sharepoint = NoDir
    /\ exportArg = NoArg
    /\ prompt = NoPrompt

\* the extractor alone, on every archive
InitUnzip ==
    /\ disk = Archives
    /\ maxLen = 0
    /\ InitRoot

SpecUnzip == InitUnzip /\ [][UnzipNext]_vars

\* the fetcher alone
InitFetch ==
    /\ disk = {}
    /\ maxLen = 0
    /\ InitRoot

SpecFetch == InitFetch /\ [][GetSpListColumns]_vars

\* the exporter alone, on every fields sequence
InitExport ==
    /\ disk = {}
    /\ maxLen = MaxFields
    /\ InitRoot

SpecExport == InitExport /\ [][ExportSpListToCsv]_vars

\* the three operations on one output root
CollidingArchive ==
    Archive(TRUE, TRUE, TopFiles, TRUE,
            (AMsapp :> FileNode(Junk)) @@ (AMsappZip :> FileNode(UserZip)))

Init ==
    /\ disk = {BadArchive, CollidingArchive}
    /\ maxLen = 1
    /\ InitRoot

Next == UnzipNext \/ ExportSpListToCsv \/ GenerateGptPrompt

Spec == Init /\ [][Next]_vars

--------------------------------------------------------------------------
(* Properties of unzip_solution                                           *)

UnzipEnded == pc = "idle" /\ ret.op = "unzip_solution"
UnzipReturned == UnzipEnded /\ ret.status = "returned"

AExtracted == ExtractDirName(AMsapp)
BExtracted == ExtractDirName(BMsapp)

\* C1: for every .msapp entry the loop has handled, on every exit path
\* (decompressed, BadZipFile skipped, or an exception of the copy or of the
\* decompression leaving unzip_solution), the temporary copy
\* <entry>.msapp.zip is not on disk.
C1_TempCopyRemoved ==
    \A f \in Visited : TempZipName(f) \notin DOMAIN solution.canvas

\* the .msapp entries of the listing that zipfile cannot open
InvalidMsapps ==
    {f \in listing : /\ IsMsapp(f)
                     /\ f \in DOMAIN solution.canvas
                     /\ ~solution.canvas[f].data.valid}

C2_AtEnd ==
    /\ (UnzipEnded /\ ret.status = "raised" /\ zip.valid) => ret.value = "OSError"
    /\ UnzipReturned =>
        /\ ret.value = "solution"
        /\ \A f \in listing : IsMsapp(f) =>
            /\ f \in Visited
            /\ ExtractDirName(f) \in DOMAIN solution.canvas
            /\ solution.canvas[f].data.valid =>
                \A m \in DOMAIN solution.canvas[f].data.members :
                    /\ m \in DOMAIN solution.canvas[ExtractDirName(f)].files
                    /\ solution.canvas[ExtractDirName(f)].files[m]
                         = solution.canvas[f].data.members[m]

\* a step of the loop that handles an invalid .msapp without an I/O error
\* of the copy: the loop goes on, the folder exists afterwards, and its
\* content is what it was (empty if the step created it)
C2_InvalidStep ==
    \A f \in todo :
        ( /\ pc = "loop"
          /\ f \notin todo'
          /\ IsMsapp(f)
          /\ ~solution.canvas[f].data.valid
          /\ ret'.status # "raised" )
        => /\ pc' = "loop"
           /\ todo' = todo \ {f}
           /\ ExtractDirName(f) \in DOMAIN solution'.canvas
           /\ solution'.canvas[ExtractDirName(f)].files
                = IF ExtractDirName(f) \in DOMAIN solution.canvas
                  THEN solution.canvas[ExtractDirName(f)].files
                  ELSE EmptyFn
           /\ solution'.canvas[f] = solution.canvas[f]

C5_NotFoundChangesNothing ==
    [][ (pc = "idle" /\ ret'.op = "unzip_solution" /\ ~zip'.exists)
        => /\ ret' = Ret("unzip_solution", "raised", "FileNotFoundError")
           /\ pc' = "idle"
           /\ solution' = solution
           /\ sharepoint' = sharepoint
           /\ prompt' = prompt ]_vars

C5_Witness ==
    /\ ret = Ret("unzip_solution", "raised", "FileNotFoundError")
    /\ ~zip.exists
    /\ ~solution.exists

\* C6: after unzip_solution has returned, every entry of the archive is in
\* solution/ with the content it has in the archive.
C6_ArchiveEntriesKept ==
    UnzipReturned =>
        /\ \A n \in DOMAIN zip.top :
            n \in DOMAIN solution.top /\ solution.top[n] = zip.top[n]
        /\ \A n \in DOMAIN zip.canvas :
            n \in DOMAIN solution.canvas /\ solution.canvas[n] = zip.canvas[n]

\* C7: when unzip_solution has returned and is called again right away
\* with the same archive, the second call raises nothing but an I/O error
\* of the file system, and when it returns the solution tree is what the
\* first call left and the loop has handled the same .msapp entries.
C7_Idempotent ==
    (UnzipEnded /\ prevCall.status = "returned" /\ prevCall.zip = zip) =>
        /\ ret.status = "raised" => ret.value = "OSError"
        /\ ret.status = "returned" =>
            /\ solution = prevCall.tree
            /\ Visited = prevCall.visited

C7_Witness ==
    /\ UnzipReturned
    /\ prevCall.status = "returned"
    /\ prevCall.zip = zip
    /\ AExtracted \in listing
    /\ {AMsapp, BMsapp} \subseteq Visited
    /\ AMsappZip \in DOMAIN zip.canvas

--------------------------------------------------------------------------
(* Properties of get_sp_list_columns                                      *)

\* C4: whenever the process of a call exits with code 0 and writes no
\* result file, the call raises the missing-output error and returns no
\* fields.
C4_MissingOutputRaised ==
    (ret.op = "get_sp_list_columns" /\ proc.outcome = "exit0_no_file") =>
        /\ ret.status = "raised"
        /\ ret.value = "RuntimeError: no JSON output"
        /\ ret.fields = <<>>

--------------------------------------------------------------------------
(* Properties of export_sp_list_to_csv                                    *)

ExportEnded == ret.op = "export_sp_list_to_csv"

JsonOfCall == JsonName(exportArg.list_name)
CsvOfCall == CsvName(exportArg.list_name)

JsonComplete ==
    /\ JsonOfCall \in DOMAIN sharepoint.files
    /\ sharepoint.files[JsonOfCall].doc = DumpFields(exportArg.fields)

CsvComplete ==
    /\ CsvOfCall \in DOMAIN sharepoint.files
    /\ Len(sharepoint.files[CsvOfCall].rows) = Len(exportArg.fields) + 1

\* C3: after an export call, returned or raised, the structured file holds
\* all records of the call exactly when the tabular file holds a row for
\* each of them: both files are complete or neither is.
C3_BothOrNeither == ExportEnded => (JsonComplete <=> CsvComplete)

\* the rows of the tabular file of the last call
RowsOfCall == sharepoint.files[CsvOfCall].rows

ChoicesPart(col) ==
    <<"Choices: ">> \o
    Join(", ", [i \in 1..Len(col["Choices"].l) |-> col["Choices"].l[i].s])

LookupPart(col) ==
    <<"Lookup: List=">> \o PyStr(Get(col, "LookupList")) \o
    <<", Field=">> \o PyStr(Get(col, "LookupField"))

CarriesChoices(col) == "Choices" \in DOMAIN col /\ Len(col["Choices"].l) > 0
CarriesLookupPair(col) ==
    /\ "LookupList" \in DOMAIN col /\ Truthy(col["LookupList"])
    /\ "LookupField" \in DOMAIN col /\ Truthy(col["LookupField"])
CarriesLookupPart(col) ==
    \/ "LookupList" \in DOMAIN col /\ Truthy(col["LookupList"])
    \/ "LookupField" \in DOMAIN col /\ Truthy(col["LookupField"])

OtherColumn(hasChoices, hasLookup, col) ==
    IF hasChoices /\ hasLookup THEN ChoicesPart(col) \o <<" | ">> \o LookupPart(col)
    ELSE IF hasChoices THEN ChoicesPart(col)
    ELSE IF hasLookup THEN LookupPart(col)
    ELSE <<>>

\* C8 as stated: the other column of every field row holds the choices
\* summary exactly when the field has a non-empty Choices list, then the
\* lookup summary exactly when it has both LookupList and LookupField.
C8_OtherColumnPair ==
    ExportEnded =>
        \A i \in 2..Len(RowsOfCall) :
            RowsOfCall[i][7] =
                OtherColumn(CarriesChoices(exportArg.fields[i - 1]),
                            CarriesLookupPair(exportArg.fields[i - 1]),
                            exportArg.fields[i - 1])

\* C8 (amended): the lookup summary is there exactly when the field has a
\* LookupList or a LookupField, the missing one of the two written as None.
C8_OtherColumn ==
    ExportEnded =>
        \A i \in 2..Len(RowsOfCall) :
            RowsOfCall[i][7] =
                OtherColumn(CarriesChoices(exportArg.fields[i - 1]),
                            CarriesLookupPart(exportArg.fields[i - 1]),
                            exportArg.fields[i - 1])

C8_Witness ==
    /\ ExportEnded
    /\ ret.status = "returned"
    /\ exportArg.fields = <<FieldFull, FieldDisplay>>
    /\ RowsOfCall[2][7] = <<"Choices: ", "A", ", ", "B", " | ",
                            "Lookup: List=", "X", ", Field=", "Y">>
    /\ RowsOfCall[3][7] = <<"Lookup: List=", "X", ", Field=", "None">>

\* json.load of the structured file
LoadFields(doc) == [i \in 1..Len(doc.arr) |-> LoadObject(doc.arr[i])]

\* C9: after an export call with N field records, the tabular file has the
\* 7-column header and one row per field, N+1 rows, a column whose
\* attribute the record lacks is empty, and the structured file
\* deserializes to the N records.
C9_RowsAndRecords ==
    ExportEnded =>
        /\ Len(RowsOfCall) = Len(exportArg.fields) + 1
        /\ RowsOfCall[1] = Header
        /\ Len(Header) = 7
        /\ \A i \in 1..Len(exportArg.fields) :
            /\ "Description" \notin DOMAIN exportArg.fields[i]
                 => RowsOfCall[i + 1][5] = <<>>
            /\ "DefaultValue" \notin DOMAIN exportArg.fields[i]
                 => RowsOfCall[i + 1][6] = <<>>
            /\ "Required" \in DOMAIN exportArg.fields[i]
                 => RowsOfCall[i + 1][4] = exportArg.fields[i]["Required"].s
        /\ sharepoint.files[JsonOfCall].doc.kind = "list"
        /\ LoadFields(sharepoint.files[JsonOfCall].doc) = exportArg.fields

--------------------------------------------------------------------------
(* Properties of generate_gpt_prompt                                      *)

Contains(lines, part) ==
    \A j \in 1..Len(part) : \E i \in 1..Len(lines) : lines[i] = part[j]
ContainsNone(lines, part) ==
    \A j \in 1..Len(part) : \A i \in 1..Len(lines) : lines[i] # part[j]

\* C10: a call of generate_gpt_prompt writes gpt_prompt.txt; the text has
\* the solution bullets exactly when output_root/solution exists at the
\* call, else the solution placeholder, and the SharePoint bullets exactly
\* when output_root/sharepoint exists, else the SharePoint placeholder; a
\* call right after another one rewrites the same file.
C10_PromptReflectsFolders ==
    [][ (pc = "idle" /\ ret'.op = "generate_gpt_prompt")
        => /\ prompt'.exists
           /\ ret'.status = "returned"
           /\ IF solution.exists
              THEN /\ Contains(prompt'.lines, SolutionBullets)
                   /\ ContainsNone(prompt'.lines, SolutionMissing)
              ELSE /\ Contains(prompt'.lines, SolutionMissing)
                   /\ ContainsNone(prompt'.lines, SolutionBullets)
           /\ IF sharepoint.exists
              THEN /\ Contains(prompt'.lines, SharePointBullets)
                   /\ ContainsNone(prompt'.lines, SharePointMissing)
              ELSE /\ Contains(prompt'.lines, SharePointMissing)
                   /\ ContainsNone(prompt'.lines, SharePointBullets)
           /\ (ret.op = "generate_gpt_prompt" => prompt' = prompt) ]_vars

C10_Witness ==
    /\ ret.op = "generate_gpt_prompt"
    /\ solution.exists
    /\ ~sharepoint.exists
    /\ Contains(prompt.lines, SolutionBullets)
    /\ Contains(prompt.lines, SharePointMissing)

====
